---- MODULE Spec2Model ----
(***************************************************************************)
(* temporalloop: configuration resolution (config.py) and the lifecycle    *)
(* supervisor Looper (worker.py, main.py).                                  *)
(*                                                                         *)
(* Python values are modelled as TLA+ strings: a str that names code       *)
(* ("pkg:n1"), an already imported artifact ("<n1>", "WorkerFactory"),     *)
(* None ("None").  Lists are sequences, limits are integers.               *)
(***************************************************************************)
EXTENDS Integers, Sequences, FiniteSets, TLC

VARIABLES
    config,        \* the Config object (config.py:169-203)
    heap,          \* the WorkerConfig objects, by identity (index)
    ctor,          \* history: for each WorkerConfig, the keyword arguments it was built from and the raw entry it stems from
    exc,           \* outcome of the last load call made through the API: NoExc, AssertionError or SystemExit
    calls,         \* number of load calls made through the API
    mainThread,    \* threading.current_thread() is threading.main_thread()
    handlers,      \* signals with a handler registered on the event loop
    pc,            \* position of the coroutine Looper.run
    workers,       \* Looper.workers: ids of the constructed Worker handles
    should_exit,   \* Looper.should_exit
    constr,        \* the new_worker tasks gathered by prepare_workers, per config.workers position
    constrExc,     \* first exception set on prepare_workers' gather (0: none)
    wrun,          \* per Worker handle: state of its run() task
    runExc,        \* first exception set on run's gather (0: none)
    shutdownCalls, \* per Worker handle: number of shutdown() invocations
    stops,         \* the tasks created by handle_exit, each running Looper.stop
    nsignals,      \* number of signals delivered so far
    exitcode       \* exit status of the process ("None" while it runs)

cfgvars == <<config, heap, ctor, exc, calls>>
loopvars == <<mainThread, handlers, pc, workers, should_exit, constr, constrExc,
              wrun, runExc, shutdownCalls, stops, nsignals, exitcode>>
vars == <<config, heap, ctor, exc, calls, mainThread, handlers, pc, workers,
          should_exit, constr, constrExc, wrun, runExc, shutdownCalls, stops, nsignals,
          exitcode>>

----------------------------------------------------------------------------
(* Bounds of the model *)

MaxWorkers == 2
MaxSignals == 2
MaxCalls == 3

----------------------------------------------------------------------------
(* Python values *)

None == "None"
WorkerFactory == "WorkerFactory"

NoExc == "none"
AssertionError == "AssertionError"
SystemExit == "SystemExit"

\* Names the dynamic loader finds, and the artifact each one names.
ImportableNames == {"pkg:n1", "pkg:n2"}

\* Every value that is a Python str among the values a reference field may hold.
StrValues == {"", "pkg:n1", "pkg:n2", "pkg:missing"}

\* temporalloop.importer.import_from_string, for a name it finds.
import_from_string(n) ==
    CASE n = "pkg:n1" -> "<n1>"
      [] n = "pkg:n2" -> "<n2>"

\* Whether import_from_string(n) raises ImportFromStringError.
ImportFails(n) == n \notin ImportableNames

\* Python truthiness of a scalar (str, None or object), of a list, of an int.
Truthy(x) == x # "" /\ x # None
TruthyList(l) == Len(l) > 0
TruthyInt(n) == n # 0

Get(kw, f, default) == IF f \in DOMAIN kw THEN kw[f] ELSE default

----------------------------------------------------------------------------
(* WorkerConfig (config.py:76-166) *)

DefaultMaxConcurrent == 100

WorkerConfig__init__(kw) ==
    [ name |-> kw.name,
      host |-> Get(kw, "host", ""),
      namespace |-> Get(kw, "namespace", ""),
      factory |-> WorkerFactory,
      _factory |-> Get(kw, "factory", ""),
      _workflows |-> Get(kw, "workflows", <<>>),
      _activities |-> Get(kw, "activities", <<>>),
      _interceptors |-> Get(kw, "interceptors", <<>>),
      _converter |-> Get(kw, "converter", None),
      _pre_init |-> Get(kw, "pre_init", <<>>),
      pre_init |-> <<>>,
      converter |-> None,
      queue |-> Get(kw, "queue", "default-queue"),
      workflows |-> <<>>,
      interceptors |-> <<>>,
      activities |-> <<>>,
      loaded |-> FALSE,
      behavior |-> Get(kw, "behavior", "merge"),
      max_concurrent_workflow_tasks |-> Get(kw, "max_concurrent_workflow_tasks", 0),
      max_concurrent_activities |-> Get(kw, "max_concurrent_activities", 0),
      debug_mode |-> FALSE,
      disable_eager_activity_execution |-> TRUE,
      metric_bind_address |-> Get(kw, "metric_bind_address", "") ]

\* _merge without its last assignment: metric_bind_address is not inherited.
_merge_without_metric(self, c) ==
    [ self EXCEPT
        !.host = IF ~Truthy(self.host) THEN c.host ELSE @,
        !.namespace = IF ~Truthy(self.namespace) THEN c.namespace ELSE @,
        !._factory = IF ~Truthy(self._factory) THEN c.factory ELSE @,
        !._converter = IF ~Truthy(self._converter) THEN c.converter ELSE @,
        !._interceptors = IF ~TruthyList(self._interceptors) THEN c.interceptors ELSE @,
        !._pre_init = IF ~TruthyList(self._pre_init) THEN c.pre_init ELSE @,
        !.max_concurrent_workflow_tasks =
            IF ~TruthyInt(self.max_concurrent_workflow_tasks)
            THEN c.max_concurrent_workflow_tasks ELSE @,
        !.max_concurrent_activities =
            IF ~TruthyInt(self.max_concurrent_activities)
            THEN c.max_concurrent_activities ELSE @ ]

\* _merge with the test on host dropped: the global host always wins.
_merge_overwrites_host(self, c) ==
    [ self EXCEPT
        !.host = c.host,
        !.namespace = IF ~Truthy(self.namespace) THEN c.namespace ELSE @,
        !._factory = IF ~Truthy(self._factory) THEN c.factory ELSE @,
        !._converter = IF ~Truthy(self._converter) THEN c.converter ELSE @,
        !._interceptors = IF ~TruthyList(self._interceptors) THEN c.interceptors ELSE @,
        !._pre_init = IF ~TruthyList(self._pre_init) THEN c.pre_init ELSE @,
        !.max_concurrent_workflow_tasks =
            IF ~TruthyInt(self.max_concurrent_workflow_tasks)
            THEN c.max_concurrent_workflow_tasks ELSE @,
        !.max_concurrent_activities =
            IF ~TruthyInt(self.max_concurrent_activities)
            THEN c.max_concurrent_activities ELSE @,
        !.metric_bind_address =
            IF ~Truthy(self.metric_bind_address) THEN c.metric_bind_address ELSE @ ]

_merge(self, c) ==
    [ self EXCEPT
        !.host = IF ~Truthy(self.host) THEN c.host ELSE @,
        !.namespace = IF ~Truthy(self.namespace) THEN c.namespace ELSE @,
        !._factory = IF ~Truthy(self._factory) THEN c.factory ELSE @,
        !._converter = IF ~Truthy(self._converter) THEN c.converter ELSE @,
        !._interceptors = IF ~TruthyList(self._interceptors) THEN c.interceptors ELSE @,
        !._pre_init = IF ~TruthyList(self._pre_init) THEN c.pre_init ELSE @,
        !.max_concurrent_workflow_tasks =
            IF ~TruthyInt(self.max_concurrent_workflow_tasks)
            THEN c.max_concurrent_workflow_tasks ELSE @,
        !.max_concurrent_activities =
            IF ~TruthyInt(self.max_concurrent_activities)
            THEN c.max_concurrent_activities ELSE @,
        !.metric_bind_address =
            IF ~Truthy(self.metric_bind_address) THEN c.metric_bind_address ELSE @ ]

\* _load_function on a scalar: [ok |-> FALSE] stands for sys.exit(1).
_load_function(function) ==
    IF function \in StrValues
    THEN IF ImportFails(function)
         THEN [ok |-> FALSE, v |-> function]
         ELSE [ok |-> TRUE, v |-> import_from_string(function)]
    ELSE [ok |-> TRUE, v |-> function]

\* _load_function on a list: a list is not a str, it is returned as it is.
_load_function_list(function) == [ok |-> TRUE, v |-> function]

_load_functions(functions) ==
    IF \E i \in 1..Len(functions) : ~_load_function(functions[i]).ok
    THEN [ok |-> FALSE, v |-> <<>>]
    ELSE [ok |-> TRUE, v |-> [i \in 1..Len(functions) |-> _load_function(functions[i]).v]]

\* The assignments of load, lines 148-153, up to the first _load_function that
\* fails: step k assigns only when the steps before it succeeded.
LoadSteps(m) ==
    <<_load_functions(m._activities).ok, _load_functions(m._workflows).ok,
      _load_functions(m._interceptors).ok, _load_function(m._converter).ok,
      _load_function(m._factory).ok, _load_function_list(m._pre_init).ok>>

FirstFailure(oks) ==
    IF \A k \in 1..Len(oks) : oks[k] THEN Len(oks) + 1
    ELSE CHOOSE k \in 1..Len(oks) : ~oks[k] /\ \A j \in 1..(k - 1) : oks[j]

LoadAssign(m, n) ==
    [ m EXCEPT
        !.activities = IF n > 1 THEN _load_functions(m._activities).v ELSE @,
        !.workflows = IF n > 2 THEN _load_functions(m._workflows).v ELSE @,
        !.interceptors = IF n > 3 THEN _load_functions(m._interceptors).v ELSE @,
        !.converter = IF n > 4 THEN _load_function(m._converter).v ELSE @,
        !.factory = IF n > 5 THEN _load_function(m._factory).v ELSE @,
        !.pre_init = IF n > 6 THEN _load_function_list(m._pre_init).v ELSE @,
        !.loaded = IF n > 6 THEN TRUE ELSE @ ]

\* WorkerConfig.load: the object after the call and the exception it raised
\* (sys.exit(1) of _load_function raises SystemExit).
WorkerConfig_load(self, global_config, hasGlobal) ==
    IF self.loaded THEN [obj |-> self, exc |-> AssertionError]
    ELSE CHOOSE r \in
            {[obj |-> LoadAssign(m, n), exc |-> IF n > 6 THEN NoExc ELSE SystemExit] :
                <<m, n>> \in {<<mm, FirstFailure(LoadSteps(mm))>> :
                    mm \in {IF self.behavior = "merge" /\ hasGlobal
                            THEN _merge(self, global_config) ELSE self}}} : TRUE

----------------------------------------------------------------------------
(* Config (config.py:169-249) *)

Config__init__(kw) ==
    [ host |-> Get(kw, "host", "localhost:7233"),
      namespace |-> Get(kw, "namespace", "default"),
      factory |-> Get(kw, "factory", WorkerFactory),
      interceptors |-> Get(kw, "interceptors", <<>>),
      _workers |-> Get(kw, "workers", <<>>),
      pre_init |-> Get(kw, "pre_init", <<>>),
      workers |-> <<>>,
      converter |-> Get(kw, "converter", None),
      max_concurrent_activities |-> Get(kw, "max_concurrent_activities", DefaultMaxConcurrent),
      max_concurrent_workflow_tasks |-> Get(kw, "max_concurrent_workflow_tasks", DefaultMaxConcurrent),
      loaded |-> FALSE,
      metric_bind_address |-> Get(kw, "metric_bind_address", "0.0.0.0:9000") ]

\* An entry of Config._workers: a dict of keyword arguments, or a WorkerConfig object.
DictEntry(kw) == [tag |-> "dict", kw |-> kw, id |-> 0]
ObjEntry(id) == [tag |-> "obj", kw |-> [name |-> ""], id |-> id]

\* One pass of the loop of Config.load, lines 243-248, on entry i; st = [config, heap, ctor, exc].
ConfigLoadEntry(i, st) ==
    CHOOSE out \in
      {[st EXCEPT !.heap = [h EXCEPT ![id] = r.obj], !.ctor = c, !.exc = r.exc,
                  !.config.workers = IF r.exc = NoExc THEN Append(@, id) ELSE @] :
          <<id, h, c, r>> \in
            {<<id0, h0, c0, WorkerConfig_load(h0[id0], st.config, TRUE)>> :
                <<id0, h0, c0>> \in
                  {IF st.config._workers[i].tag = "dict"
                   THEN <<Len(st.heap) + 1,
                          Append(st.heap, WorkerConfig__init__(st.config._workers[i].kw)),
                          Append(st.ctor, [kw |-> st.config._workers[i].kw, origin |-> i])>>
                   ELSE <<st.config._workers[i].id, st.heap, st.ctor>>}}} : TRUE

\* The loop of Config.load from entry i on: it ends with the first exception.
RECURSIVE ConfigLoadFrom(_, _)
ConfigLoadFrom(i, st) ==
    IF i > Len(st.config._workers) THEN [st EXCEPT !.config.loaded = TRUE]
    ELSE CHOOSE out \in
           {IF s1.exc # NoExc THEN s1 ELSE ConfigLoadFrom(i + 1, s1) :
               s1 \in {ConfigLoadEntry(i, s0) : s0 \in {st}}} : TRUE

Config_load(st) ==
    IF st.config.loaded THEN [st EXCEPT !.exc = AssertionError]
    ELSE ConfigLoadFrom(1, [st EXCEPT !.exc = NoExc])

----------------------------------------------------------------------------
(* The load calls, as a client of the API makes them *)

Config_load_call ==
    /\ calls < MaxCalls
    /\ \E r \in {Config_load([config |-> config, heap |-> heap, ctor |-> ctor, exc |-> NoExc])} :
           /\ config' = r.config
           /\ heap' = r.heap
           /\ ctor' = r.ctor
           /\ exc' = r.exc
    /\ calls' = calls + 1
    /\ UNCHANGED loopvars

\* WorkerConfig_load_call as it would be if load wrote the worker's host back
\* to the global Config.
WorkerConfig_load_call_writes_global(id, hasGlobal) ==
    /\ calls < MaxCalls
    /\ \E r \in {WorkerConfig_load(heap[id], config, hasGlobal)} :
           /\ heap' = [heap EXCEPT ![id] = r.obj]
           /\ exc' = r.exc
           /\ config' = [config EXCEPT !.host = r.obj.host]
    /\ calls' = calls + 1
    /\ UNCHANGED ctor
    /\ UNCHANGED loopvars

\* worker.load(config) or worker.load() on a WorkerConfig object the client holds.
WorkerConfig_load_call(id, hasGlobal) ==
    /\ calls < MaxCalls
    /\ \E r \in {WorkerConfig_load(heap[id], config, hasGlobal)} :
           /\ heap' = [heap EXCEPT ![id] = r.obj]
           /\ exc' = r.exc
    /\ calls' = calls + 1
    /\ UNCHANGED <<config, ctor>>
    /\ UNCHANGED loopvars

----------------------------------------------------------------------------
(* WorkerFactory (worker.py:61-105) and the Worker it returns *)

SIGINT == 2
SIGTERM == 15
HANDLED_SIGNALS == {SIGINT, SIGTERM}

\* x() in execute_preinit and in new_worker's interceptors: a str or None is not callable.
Callable(x) == x \notin StrValues /\ x # None

\* Whether the synchronous part of new_worker(worker_config) runs through.
HooksCallable(wc) ==
    /\ \A k \in 1..Len(wc.pre_init) : Callable(wc.pre_init[k])
    /\ \A k \in 1..Len(wc.interceptors) : Callable(wc.interceptors[k])

\* new_worker(config.workers[i]) returns a Worker: the hooks ran and Client.connect succeeded.
new_worker_returns(i) ==
    /\ pc \in {"constructing", "raised"}
    /\ constr[i] = "pending"
    /\ HooksCallable(heap[config.workers[i]])
    /\ constr' = [constr EXCEPT ![i] = "ok"]
    /\ UNCHANGED <<constrExc, pc, workers, wrun, runExc, shutdownCalls, stops,
                   nsignals, mainThread, exitcode, handlers, should_exit>>
    /\ UNCHANGED cfgvars

\* new_worker(config.workers[i]) raises (a hook, Client.connect or Worker()); the
\* gather of prepare_workers keeps the first exception, the other tasks go on.
new_worker_raises(i) ==
    /\ pc \in {"constructing", "raised"}
    /\ constr[i] = "pending"
    /\ constr' = [constr EXCEPT ![i] = "failed"]
    /\ constrExc' = IF constrExc = 0 THEN i ELSE constrExc
    /\ UNCHANGED <<pc, workers, wrun, runExc, shutdownCalls, stops,
                   nsignals, mainThread, exitcode, handlers, should_exit>>
    /\ UNCHANGED cfgvars

----------------------------------------------------------------------------
(* Looper (worker.py:108-155) *)

\* A task running stop: its state, the shutdown futures it gathers, the first of
\* them that raised, and (history) the number of workers running when it began.
NoStop == [st |-> "created", fut |-> <<>>, exc |-> 0, n |-> 0]

\* install_signal_handlers without the test on the thread.
install_signal_handlers_any_thread ==
    /\ pc = "idle"
    /\ handlers' = HANDLED_SIGNALS
    /\ pc' = "loading"
    /\ UNCHANGED <<mainThread, exitcode, workers, should_exit, constr, constrExc, wrun, runExc,
                   shutdownCalls, stops, nsignals>>
    /\ UNCHANGED cfgvars

\* install_signal_handlers, lines 140-146: nothing off the main thread, else one
\* add_signal_handler per handled signal (the loop keeps one handler per signal).
install_signal_handlers ==
    /\ pc = "idle"
    /\ handlers' = IF ~mainThread THEN {} ELSE HANDLED_SIGNALS
    /\ pc' = "loading"
    /\ UNCHANGED <<mainThread, exitcode, workers, should_exit, constr, constrExc, wrun, runExc,
                   shutdownCalls, stops, nsignals>>
    /\ UNCHANGED cfgvars

\* run_load as it would be if run went on after a load that failed.
run_load_ignores_failure ==
    /\ pc = "loading"
    /\ \E r \in {IF ~config.loaded
                 THEN Config_load([config |-> config, heap |-> heap, ctor |-> ctor, exc |-> NoExc])
                 ELSE [config |-> config, heap |-> heap, ctor |-> ctor, exc |-> NoExc]} :
           /\ config' = r.config
           /\ heap' = r.heap
           /\ ctor' = r.ctor
           /\ exc' = r.exc
           /\ pc' = "starting"
    /\ UNCHANGED <<calls, mainThread, exitcode, handlers, workers, should_exit, constr, constrExc,
                   wrun, runExc, shutdownCalls, stops, nsignals>>

\* run, lines 122-124: load the config unless it is loaded already.
run_load ==
    /\ pc = "loading"
    /\ \E r \in {IF ~config.loaded
                 THEN Config_load([config |-> config, heap |-> heap, ctor |-> ctor, exc |-> NoExc])
                 ELSE [config |-> config, heap |-> heap, ctor |-> ctor, exc |-> NoExc]} :
           /\ config' = r.config
           /\ heap' = r.heap
           /\ ctor' = r.ctor
           /\ exc' = r.exc
           /\ pc' = IF r.exc = NoExc THEN "starting" ELSE "raised"
    /\ UNCHANGED <<calls, mainThread, exitcode, handlers, workers, should_exit, constr, constrExc,
                   wrun, runExc, shutdownCalls, stops, nsignals>>

\* prepare_workers, lines 131-134: one new_worker coroutine per config.workers
\* entry, all handed to asyncio.gather; run suspends on it.  Without any
\* worker both gathers of run are done at once and run returns.
prepare_workers ==
    /\ pc = "starting"
    /\ IF \E i \in 1..Len(config.workers) : ~Callable(heap[config.workers[i]].factory)
       THEN pc' = "raised" /\ UNCHANGED constr
       ELSE IF Len(config.workers) = 0
       THEN pc' = "returned" /\ UNCHANGED constr
       ELSE /\ pc' = "constructing"
            /\ constr' = [i \in 1..Len(config.workers) |-> "pending"]
    /\ UNCHANGED <<mainThread, exitcode, handlers, workers, should_exit, constrExc, wrun, runExc,
                   shutdownCalls, stops, nsignals>>
    /\ UNCHANGED cfgvars

\* run_start_workers as it would be if the constructed workers were listed
\* last first.
run_start_workers_reversed ==
    /\ pc = "constructing"
    /\ constrExc = 0
    /\ \A i \in 1..Len(constr) : constr[i] = "ok"
    /\ workers' = [i \in 1..Len(constr) |-> config.workers[Len(constr) + 1 - i]]
    /\ wrun' = [i \in 1..Len(constr) |-> "running"]
    /\ shutdownCalls' = [i \in 1..Len(constr) |-> 0]
    /\ pc' = "running"
    /\ UNCHANGED <<mainThread, exitcode, handlers, should_exit, constr, constrExc, runExc, stops, nsignals>>
    /\ UNCHANGED cfgvars

\* run_start_workers as it would be with gather(..., return_exceptions=True):
\* run goes on once every construction has ended, failed or not.
run_start_workers_return_exceptions ==
    /\ pc = "constructing"
    /\ \A i \in 1..Len(constr) : constr[i] \in {"ok", "failed"}
    /\ workers' = [i \in 1..Len(constr) |-> config.workers[i]]
    /\ wrun' = [i \in 1..Len(constr) |-> "running"]
    /\ shutdownCalls' = [i \in 1..Len(constr) |-> 0]
    /\ pc' = "running"
    /\ UNCHANGED <<mainThread, exitcode, handlers, should_exit, constr, constrExc, runExc, stops, nsignals>>
    /\ UNCHANGED cfgvars

\* run, lines 126-128, once the gather of prepare_workers has its result:
\* self.workers is assigned and x.run() is invoked on every worker.
run_start_workers ==
    /\ pc = "constructing"
    /\ constrExc = 0
    /\ \A i \in 1..Len(constr) : constr[i] = "ok"
    /\ workers' = [i \in 1..Len(constr) |-> config.workers[i]]
    /\ wrun' = [i \in 1..Len(constr) |-> "running"]
    /\ shutdownCalls' = [i \in 1..Len(constr) |-> 0]
    /\ pc' = "running"
    /\ UNCHANGED <<mainThread, exitcode, handlers, should_exit, constr, constrExc, runExc, stops, nsignals>>
    /\ UNCHANGED cfgvars

\* run, line 126: the gather of prepare_workers raised; run raises with it.
run_prepare_raises ==
    /\ pc = "constructing"
    /\ constrExc # 0
    /\ pc' = "raised"
    /\ UNCHANGED <<mainThread, exitcode, handlers, workers, should_exit, constr, constrExc, wrun,
                   runExc, shutdownCalls, stops, nsignals>>
    /\ UNCHANGED cfgvars

\* Worker.run() of worker i ends by itself.
worker_run_completes(i) ==
    /\ pc \in {"running", "raised"}
    /\ wrun[i] = "running"
    /\ shutdownCalls[i] = 0
    /\ wrun' = [wrun EXCEPT ![i] = "done"]
    /\ UNCHANGED <<mainThread, exitcode, handlers, pc, workers, should_exit, constr, constrExc,
                   runExc, shutdownCalls, stops, nsignals>>
    /\ UNCHANGED cfgvars

\* Worker.run() of worker i ends because its shutdown was requested.
worker_run_stops(i) ==
    /\ pc \in {"running", "raised"}
    /\ wrun[i] = "running"
    /\ shutdownCalls[i] > 0
    /\ wrun' = [wrun EXCEPT ![i] = "done"]
    /\ UNCHANGED <<mainThread, exitcode, handlers, pc, workers, should_exit, constr, constrExc,
                   runExc, shutdownCalls, stops, nsignals>>
    /\ UNCHANGED cfgvars

\* Worker.run() of worker i raises; the gather of run keeps the first exception.
worker_run_raises(i) ==
    /\ pc \in {"running", "raised"}
    /\ wrun[i] = "running"
    /\ wrun' = [wrun EXCEPT ![i] = "failed"]
    /\ runExc' = IF runExc = 0 THEN i ELSE runExc
    /\ UNCHANGED <<mainThread, exitcode, handlers, pc, workers, should_exit, constr, constrExc,
                   shutdownCalls, stops, nsignals>>
    /\ UNCHANGED cfgvars

\* run, line 128: every run future resolved without an exception; run returns.
run_returns ==
    /\ pc = "running"
    /\ runExc = 0
    /\ \A i \in 1..Len(wrun) : wrun[i] = "done"
    /\ pc' = "returned"
    /\ UNCHANGED <<mainThread, exitcode, handlers, workers, should_exit, constr, constrExc, wrun,
                   runExc, shutdownCalls, stops, nsignals>>
    /\ UNCHANGED cfgvars

\* run_raises as it would be if the run futures were all awaited before the
\* error is raised.
run_raises_once_all_resolved ==
    /\ pc = "running"
    /\ runExc # 0
    /\ \A i \in 1..Len(wrun) : wrun[i] # "running"
    /\ pc' = "raised"
    /\ UNCHANGED <<mainThread, exitcode, handlers, workers, should_exit, constr, constrExc, wrun,
                   runExc, shutdownCalls, stops, nsignals>>
    /\ UNCHANGED cfgvars

\* run, line 128: the gather of the run futures raised; run raises with it.
run_raises ==
    /\ pc = "running"
    /\ runExc # 0
    /\ pc' = "raised"
    /\ UNCHANGED <<mainThread, exitcode, handlers, workers, should_exit, constr, constrExc, wrun,
                   runExc, shutdownCalls, stops, nsignals>>
    /\ UNCHANGED cfgvars

\* handle_exit(sig, None), called by the event loop while run is suspended.
handle_exit(sig) ==
    /\ sig \in handlers
    /\ pc \in {"constructing", "running"}
    /\ nsignals < MaxSignals
    /\ nsignals' = nsignals + 1
    /\ stops' = IF sig \in {SIGTERM, SIGINT} THEN Append(stops, NoStop) ELSE stops
    /\ UNCHANGED <<mainThread, exitcode, handlers, pc, workers, should_exit, constr, constrExc, wrun,
                   runExc, shutdownCalls>>
    /\ UNCHANGED cfgvars

\* stop_begin as it would be if stop went through the configured workers
\* (config.workers) instead of the started ones (self.workers).
stop_begin_on_configured(t) ==
    /\ pc \in {"constructing", "running", "returned", "raised"}
    /\ stops[t].st = "created"
    /\ shutdownCalls' = [i \in 1..Len(config.workers) |->
                            IF i \in 1..Len(shutdownCalls) THEN shutdownCalls[i] + 1 ELSE 1]
    /\ stops' = [stops EXCEPT ![t] =
                    [st |-> IF Len(workers) = 0 THEN "done" ELSE "waiting",
                     fut |-> [i \in 1..Len(workers) |-> "pending"],
                     exc |-> 0,
                     n |-> Cardinality({i \in 1..Len(wrun) : wrun[i] = "running"})]]
    /\ UNCHANGED <<mainThread, exitcode, handlers, pc, workers, should_exit, constr, constrExc, wrun,
                   runExc, nsignals>>
    /\ UNCHANGED cfgvars

\* stop_begin as it would be if stop gathered nothing: no shutdown() is invoked.
stop_begin_without_shutdown(t) ==
    /\ pc \in {"constructing", "running", "returned", "raised"}
    /\ stops[t].st = "created"
    /\ stops' = [stops EXCEPT ![t] =
                    [st |-> "done",
                     fut |-> <<>>,
                     exc |-> 0,
                     n |-> Cardinality({i \in 1..Len(wrun) : wrun[i] = "running"})]]
    /\ UNCHANGED <<mainThread, exitcode, handlers, pc, workers, should_exit, constr, constrExc, wrun,
                   runExc, shutdownCalls, nsignals>>
    /\ UNCHANGED cfgvars

\* stop, lines 115-117: x.shutdown() is invoked on every worker of self.workers and
\* the futures are gathered; with no worker the gather is done at once.
stop_begin(t) ==
    /\ pc \in {"constructing", "running", "returned", "raised"}
    /\ stops[t].st = "created"
    /\ shutdownCalls' = [i \in 1..Len(shutdownCalls) |->
                            IF i \in 1..Len(workers) THEN shutdownCalls[i] + 1 ELSE shutdownCalls[i]]
    /\ stops' = [stops EXCEPT ![t] =
                    [st |-> IF Len(workers) = 0 THEN "done" ELSE "waiting",
                     fut |-> [i \in 1..Len(workers) |-> "pending"],
                     exc |-> 0,
                     n |-> Cardinality({i \in 1..Len(wrun) : wrun[i] = "running"})]]
    /\ UNCHANGED <<mainThread, exitcode, handlers, pc, workers, should_exit, constr, constrExc, wrun,
                   runExc, nsignals>>
    /\ UNCHANGED cfgvars

\* Worker.shutdown() of worker i, called by stop task t, resolves: the worker has stopped.
shutdown_resolves(t, i) ==
    /\ pc \in {"constructing", "running", "returned", "raised"}
    /\ stops[t].st \in {"waiting", "raised"}
    /\ stops[t].fut[i] = "pending"
    /\ wrun[i] # "running"
    /\ stops' = [stops EXCEPT ![t].fut[i] = "ok"]
    /\ UNCHANGED <<mainThread, exitcode, handlers, pc, workers, should_exit, constr, constrExc, wrun,
                   runExc, shutdownCalls, nsignals>>
    /\ UNCHANGED cfgvars

\* Worker.shutdown() of worker i, called by stop task t, raises; the gather of
\* stop keeps the first exception.
shutdown_raises(t, i) ==
    /\ pc \in {"constructing", "running", "returned", "raised"}
    /\ stops[t].st \in {"waiting", "raised"}
    /\ stops[t].fut[i] = "pending"
    /\ stops' = [stops EXCEPT ![t].fut[i] = "failed",
                              ![t].exc = IF @ = 0 THEN i ELSE @]
    /\ UNCHANGED <<mainThread, exitcode, handlers, pc, workers, should_exit, constr, constrExc, wrun,
                   runExc, shutdownCalls, nsignals>>
    /\ UNCHANGED cfgvars

\* stop_returns as it would be if stop emptied self.workers when it is done.
stop_returns_releases_workers(t) ==
    /\ pc \in {"constructing", "running", "returned", "raised"}
    /\ stops[t].st = "waiting"
    /\ stops[t].exc = 0
    /\ \A i \in 1..Len(stops[t].fut) : stops[t].fut[i] = "ok"
    /\ stops' = [stops EXCEPT ![t].st = "done"]
    /\ workers' = <<>>
    /\ UNCHANGED <<mainThread, exitcode, handlers, pc, should_exit, constr, constrExc, wrun,
                   runExc, shutdownCalls, nsignals>>
    /\ UNCHANGED cfgvars

\* stop, lines 117-118: every shutdown future resolved; stop logs and returns.
stop_returns(t) ==
    /\ pc \in {"constructing", "running", "returned", "raised"}
    /\ stops[t].st = "waiting"
    /\ stops[t].exc = 0
    /\ \A i \in 1..Len(stops[t].fut) : stops[t].fut[i] = "ok"
    /\ stops' = [stops EXCEPT ![t].st = "done"]
    /\ UNCHANGED <<mainThread, exitcode, handlers, pc, workers, should_exit, constr, constrExc, wrun,
                   runExc, shutdownCalls, nsignals>>
    /\ UNCHANGED cfgvars

\* stop, line 117: the gather raised with the first failed shutdown; stop raises.
stop_raises(t) ==
    /\ pc \in {"constructing", "running", "returned", "raised"}
    /\ stops[t].st = "waiting"
    /\ stops[t].exc # 0
    /\ stops' = [stops EXCEPT ![t].st = "raised"]
    /\ UNCHANGED <<mainThread, exitcode, handlers, pc, workers, should_exit, constr, constrExc, wrun,
                   runExc, shutdownCalls, nsignals>>
    /\ UNCHANGED cfgvars

----------------------------------------------------------------------------
(* main.run (main.py:35-37) *)

Cancel(s) == IF s \in {"pending", "running"} THEN "cancelled" ELSE s

\* asyncio.run, once Looper.run returned or raised: every task still pending is
\* cancelled and the loop, with its signal handlers, is closed.  main then
\* returns and the process exits with 0, or the exception leaves main: the
\* SystemExit of sys.exit(1) and an uncaught exception both exit with 1.
asyncio_run_closes ==
    /\ pc \in {"returned", "raised"}
    /\ pc' = "closed"
    /\ constr' = [i \in 1..Len(constr) |-> Cancel(constr[i])]
    /\ wrun' = [i \in 1..Len(wrun) |-> Cancel(wrun[i])]
    /\ stops' = [t \in 1..Len(stops) |->
                    [st |-> IF stops[t].st \in {"created", "waiting"} THEN "cancelled" ELSE stops[t].st,
                     fut |-> [i \in 1..Len(stops[t].fut) |-> Cancel(stops[t].fut[i])],
                     exc |-> stops[t].exc,
                     n |-> stops[t].n]]
    /\ handlers' = {}
    /\ exitcode' = IF pc = "returned" THEN 0 ELSE 1
    /\ UNCHANGED <<mainThread, workers, should_exit, constrExc, runExc, shutdownCalls, nsignals>>
    /\ UNCHANGED cfgvars

----------------------------------------------------------------------------
(* Initial states *)

\* A Config built from keyword arguments gkw and a worker list given as raws:
\* a sequence of [tag, kw], a dict of keyword arguments or a WorkerConfig(**kw).
ObjsUpTo(raws, j) == Cardinality({x \in 1..j : raws[x].tag = "obj"})
ObjPos(raws, k) == CHOOSE j \in 1..Len(raws) : raws[j].tag = "obj" /\ ObjsUpTo(raws, j) = k

NewConfig(gkw, raws) ==
    Config__init__([f \in DOMAIN gkw \cup {"workers"} |->
        IF f = "workers"
        THEN [j \in 1..Len(raws) |->
                IF raws[j].tag = "dict" THEN DictEntry(raws[j].kw)
                ELSE ObjEntry(ObjsUpTo(raws, j))]
        ELSE gkw[f]])

NewHeap(raws) ==
    [k \in 1..ObjsUpTo(raws, Len(raws)) |-> WorkerConfig__init__(raws[ObjPos(raws, k)].kw)]

NewCtor(raws) ==
    [k \in 1..ObjsUpTo(raws, Len(raws)) |->
        [kw |-> raws[ObjPos(raws, k)].kw, origin |-> ObjPos(raws, k)]]

SeqsUpTo(S, n) == UNION {[1..k -> S] : k \in 0..n}

\* Config() with its defaults, and a Config as config_from_dict builds it:
\* the references are names.
GlobalDefaults == [host |-> "localhost:7233"]
GlobalNamed ==
    [host |-> "E", namespace |-> "ns", factory |-> "pkg:n1", converter |-> "pkg:n1",
     interceptors |-> <<"pkg:n1">>, pre_init |-> <<"pkg:n1">>,
     max_concurrent_activities |-> 3, max_concurrent_workflow_tasks |-> 4,
     metric_bind_address |-> "m"]
Globals == {GlobalDefaults, GlobalNamed}

LooperInit ==
    /\ handlers = {}
    /\ pc = "idle"
    /\ workers = <<>>
    /\ should_exit = FALSE
    /\ constr = <<>>
    /\ constrExc = 0
    /\ wrun = <<>>
    /\ runExc = 0
    /\ shutdownCalls = <<>>
    /\ stops = <<>>
    /\ nsignals = 0
    /\ exitcode = None

WorkerNames == <<"w1", "w2", "w3", "w4">>

\* The worker lists the supervisor is run on: dicts, some with a name the loader
\* does not find.
LooperRaws ==
    {r \in SeqsUpTo([tag : {"dict"},
                     kw : {[name |-> n] : n \in {"w"}}
                          \cup {[name |-> n, activities |-> <<"pkg:missing">>] : n \in {"w"}}],
                    MaxWorkers) : TRUE}

NameRaws(r) == [j \in 1..Len(r) |->
                  [r[j] EXCEPT !.kw = [f \in DOMAIN r[j].kw |->
                                          IF f = "name" THEN WorkerNames[j] ELSE r[j].kw[f]]]]

\* Looper(config), with a config that is fresh or that the caller has loaded.
Init ==
    /\ mainThread \in BOOLEAN
    /\ LooperInit
    /\ calls = 0
    /\ \E r \in LooperRaws, preloaded \in BOOLEAN :
         \E raws \in {NameRaws(r)} :
         \E st0 \in {[config |-> NewConfig(GlobalDefaults, raws), heap |-> NewHeap(raws),
                      ctor |-> NewCtor(raws), exc |-> NoExc]} :
         \E st1 \in {Config_load(st0)} :
             IF preloaded /\ st1.exc = NoExc
             THEN config = st1.config /\ heap = st1.heap /\ ctor = st1.ctor /\ exc = st1.exc
             ELSE config = st0.config /\ heap = st0.heap /\ ctor = st0.ctor /\ exc = st0.exc

Next ==
    \/ install_signal_handlers
    \/ run_load
    \/ prepare_workers
    \/ \E i \in 1..Len(constr) : new_worker_returns(i)
    \/ \E i \in 1..Len(constr) : new_worker_raises(i)
    \/ run_start_workers
    \/ run_prepare_raises
    \/ \E i \in 1..Len(wrun) : worker_run_completes(i)
    \/ \E i \in 1..Len(wrun) : worker_run_stops(i)
    \/ \E i \in 1..Len(wrun) : worker_run_raises(i)
    \/ run_returns
    \/ run_raises
    \/ \E sig \in HANDLED_SIGNALS : handle_exit(sig)
    \/ \E t \in 1..Len(stops) : stop_begin(t)
    \/ \E t \in 1..Len(stops) : \E i \in 1..Len(stops[t].fut) : shutdown_resolves(t, i)
    \/ \E t \in 1..Len(stops) : \E i \in 1..Len(stops[t].fut) : shutdown_raises(t, i)
    \/ \E t \in 1..Len(stops) : stop_returns(t)
    \/ \E t \in 1..Len(stops) : stop_raises(t)
    \/ asyncio_run_closes

Spec == Init /\ [][Next]_vars

----------------------------------------------------------------------------
(* Config.load and WorkerConfig.load called by a client, on lists of workers *)

ConfigRaws ==
    SeqsUpTo([tag : {"dict", "obj"},
              kw : {[name |-> n] : n \in {"w1", "w2"}}
                   \cup {[name |-> n, activities |-> a] :
                            n \in {"w1", "w2"}, a \in {<<"pkg:n1">>, <<"pkg:missing">>}}],
             MaxWorkers)

InitConfig ==
    /\ mainThread = TRUE
    /\ LooperInit
    /\ calls = 0
    /\ exc = NoExc
    /\ \E g \in Globals, raws \in ConfigRaws :
         /\ config = NewConfig(g, raws)
         /\ heap = NewHeap(raws)
         /\ ctor = NewCtor(raws)

NextConfig ==
    \/ Config_load_call
    \/ \E id \in 1..Len(heap), hasGlobal \in BOOLEAN : WorkerConfig_load_call(id, hasGlobal)

SpecConfig == InitConfig /\ [][NextConfig]_vars

----------------------------------------------------------------------------
(* WorkerConfig.load applied to one worker, over the values of every field *)

\* The fields WorkerConfig._merge may inherit, and behavior.
MergeFields ==
    {"host", "namespace", "factory", "converter", "interceptors", "pre_init",
     "max_concurrent_workflow_tasks", "max_concurrent_activities", "metric_bind_address"}

\* For each field, an empty value and a value of its own that a caller may pass.
FieldValues(f) ==
    CASE f = "host" -> <<"", "E2">>
      [] f = "namespace" -> <<"", "ns2">>
      [] f = "factory" -> <<"", "pkg:n2">>
      [] f = "converter" -> <<None, "<n2>">>
      [] f = "interceptors" -> <<<<>>, <<"pkg:n2">>>>
      [] f = "pre_init" -> <<<<>>, <<"<n2>">>>>
      [] f = "max_concurrent_workflow_tasks" -> <<0, 5>>
      [] f = "max_concurrent_activities" -> <<0, 7>>
      [] f = "metric_bind_address" -> <<"", "m2">>
      [] f = "behavior" -> <<"merge", "isolated">>
      [] f = "name" -> <<"w1", "w1">>

\* The keyword arguments of WorkerConfig(...): each field is left out (0), passed
\* empty (1) or passed with a value (2); behavior is left out or "isolated".
MergeKws ==
    {[f \in {g \in DOMAIN sel : sel[g] # 0} |-> FieldValues(f)[sel[f]]] :
        sel \in {x \in [MergeFields \cup {"behavior", "name"} -> {0, 1, 2}] :
                    x["name"] = 1 /\ x["behavior"] # 1}}

InitMerge ==
    /\ mainThread = TRUE
    /\ LooperInit
    /\ calls = 0
    /\ exc = NoExc
    /\ \E g \in Globals, kw \in MergeKws :
         \E raws \in {<<[tag |-> "obj", kw |-> kw]>>} :
             /\ config = NewConfig(g, raws)
             /\ heap = NewHeap(raws)
             /\ ctor = NewCtor(raws)

\* One load of the worker with the global Config: worker.load(config), or Config.load.
NextMerge ==
    \/ calls = 0 /\ WorkerConfig_load_call(1, TRUE)
    \/ calls = 0 /\ Config_load_call

SpecMerge == InitMerge /\ [][NextMerge]_vars

----------------------------------------------------------------------------
(* Claims on the supervisor, checked under Spec *)

\* C1: no worker's run() is invoked until the construction of every worker of
\* config.workers has finished successfully; once a construction has failed,
\* run() is invoked on no worker.
C1_ConstructionBarrier ==
    Len(wrun) > 0 =>
        /\ Len(constr) = Len(config.workers)
        /\ \A i \in 1..Len(constr) : constr[i] = "ok"

\* One construction succeeded, another failed, and run ended without a worker started.
C1_Witness ==
    /\ pc = "closed"
    /\ \E a, b \in 1..Len(constr) : constr[a] = "ok" /\ constr[b] = "failed"
    /\ Len(wrun) = 0

\* Whether stop task t was begun while every worker was running.
IssuedWhileRunning(t) ==
    stops[t].st # "created" /\ Len(workers) > 0 /\ stops[t].n = Len(workers)

\* C2: a stop request issued while N workers are running invokes shutdown()
\* exactly once on each of the N workers, N times in total, and Looper.stop
\* does not complete until all N shutdown futures have resolved.
C2_ExactlyNShutdownsAllAwaited ==
    \A t \in 1..Len(stops) : (nsignals = 1 /\ IssuedWhileRunning(t)) =>
        /\ \A i \in 1..Len(workers) : shutdownCalls[i] = 1
        /\ stops[t].st \in {"done", "raised"} =>
              \A i \in 1..Len(stops[t].fut) : stops[t].fut[i] \in {"ok", "failed"}

\* C3: over any sequence of signals each worker's shutdown() is invoked at most once.
C3_ShutdownAtMostOnce ==
    \A i \in 1..Len(shutdownCalls) : shutdownCalls[i] <= 1

\* C4: with running workers and a terminate signal, every worker receives a
\* shutdown call and Looper.run does not return while the shutdown future of
\* some worker is still pending.
C4_RunReturnsAfterShutdowns ==
    \A t \in 1..Len(stops) : IssuedWhileRunning(t) =>
        /\ \A i \in 1..Len(workers) : shutdownCalls[i] >= 1
        /\ pc = "returned" =>
              \A i \in 1..Len(stops[t].fut) : stops[t].fut[i] # "pending"

\* C8: after a Config.load that failed on a name the loader does not find,
\* config.workers holds no resolved worker.
C8_NoPartialWorkerList ==
    (pc \in {"raised", "closed"} /\ exc = SystemExit) => Len(config.workers) = 0

----------------------------------------------------------------------------
(* Claims on Config.load, checked under SpecConfig *)

\* The name of raw entry j of config._workers.
RawName(j) ==
    IF config._workers[j].tag = "dict" THEN config._workers[j].kw.name
    ELSE heap[config._workers[j].id].name

\* C7: a load of an already loaded Config or WorkerConfig is rejected and changes
\* nothing, and after any sequence of load calls config.workers holds each raw
\* worker at most once.
C7_NoDuplicateResolution ==
    [][ /\ (config.loaded /\ Config_load_call) =>
              (exc' = AssertionError /\ UNCHANGED <<config, heap>>)
        /\ \A id \in 1..Len(heap) :
              (heap[id].loaded /\ \E g \in BOOLEAN : WorkerConfig_load_call(id, g)) =>
                  (exc' = AssertionError /\ UNCHANGED <<config, heap>>)
        /\ \A p, q \in 1..Len(config'.workers) :
              p # q => ctor'[config'.workers[p]].origin # ctor'[config'.workers[q]].origin
      ]_vars

\* C9: when two entries of the raw worker list have the same name, Config.load
\* fails and never produces a resolved worker list.
C9_DuplicateNamesRejected ==
    (\E p, q \in 1..Len(config._workers) : p # q /\ RawName(p) = RawName(q)) =>
        /\ ~config.loaded
        /\ Len(config.workers) = 0

----------------------------------------------------------------------------
(* Claims on WorkerConfig.load, checked under SpecMerge *)

\* What the loader makes of a value: a name becomes the artifact it names.
Artifact(v) == IF v \in ImportableNames THEN import_from_string(v) ELSE v

\* What load makes of the raw value v of field f.
Resolved(f, v) ==
    CASE f \in {"factory", "converter"} -> Artifact(v)
      [] f = "interceptors" -> [k \in 1..Len(v) |-> Artifact(v[k])]
      [] OTHER -> v

\* The type default of field f: the first of its values.
TypeDefault(f) == FieldValues(f)[1]

IsEmpty(f, v) ==
    CASE f \in {"interceptors", "pre_init"} -> Len(v) = 0
      [] f \in {"max_concurrent_workflow_tasks", "max_concurrent_activities"} -> v = 0
      [] OTHER -> v = "" \/ v = None

\* C5 as stated: after load(global) a field left unset equals the global
\* Config's value under merge, and its type default under isolated.
C5_UnsetEqualsGlobal ==
    \A id \in 1..Len(heap) : heap[id].loaded =>
        \A f \in MergeFields \ DOMAIN ctor[id].kw :
            IF heap[id].behavior = "merge"
            THEN heap[id][f] = config[f]
            ELSE heap[id][f] = TypeDefault(f)

\* C5 as amended: under merge a field left unset holds the global Config's value
\* as the loader resolves it (a name given for factory, converter or an
\* interceptor is replaced by the artifact it names); under isolated it holds
\* its type default, except factory: an isolated worker with no factory does not load.
C5_UnsetInheritsResolvedGlobal ==
    \A id \in 1..Len(heap) :
        /\ heap[id].loaded =>
             \A f \in MergeFields \ DOMAIN ctor[id].kw :
                IF heap[id].behavior = "merge"
                THEN heap[id][f] = Resolved(f, config[f])
                ELSE f # "factory" /\ heap[id][f] = TypeDefault(f)
        /\ (calls > 0 /\ heap[id].behavior = "isolated" /\ "factory" \notin DOMAIN ctor[id].kw) =>
             (~heap[id].loaded /\ exc = SystemExit)

\* A merge worker built from its name alone was loaded with a global Config
\* whose references are names.
C5_Witness ==
    /\ Len(heap) = 1
    /\ heap[1].loaded
    /\ DOMAIN ctor[1].kw = {"name"}
    /\ config.factory = "pkg:n1"
    /\ heap[1].factory = "<n1>"
    /\ heap[1].host = "E"

\* C6 as stated: load never replaces a value the worker set itself by the global value.
C6_ExplicitNeverOverwritten ==
    \A id \in 1..Len(heap) : heap[id].loaded =>
        \A f \in MergeFields \cap DOMAIN ctor[id].kw :
            heap[id][f] = Resolved(f, ctor[id].kw[f])

\* C6 as amended: load never replaces a non-empty value the worker set itself,
\* in both behavior modes; a value passed empty ("", None, [], 0) is kept under
\* isolated and replaced by the global value under merge.
C6_NonEmptyExplicitKept ==
    \A id \in 1..Len(heap) : heap[id].loaded =>
        \A f \in MergeFields \cap DOMAIN ctor[id].kw :
            IF ~IsEmpty(f, ctor[id].kw[f]) \/ heap[id].behavior = "isolated"
            THEN heap[id][f] = Resolved(f, ctor[id].kw[f])
            ELSE heap[id][f] = Resolved(f, config[f])

\* A merge worker that set every field to a value of its own was loaded with a
\* global Config holding other values.
C6_Witness ==
    /\ Len(heap) = 1
    /\ heap[1].loaded
    /\ heap[1].behavior = "merge"
    /\ MergeFields \subseteq DOMAIN ctor[1].kw
    /\ \A f \in MergeFields : ~IsEmpty(f, ctor[1].kw[f]) /\ config[f] # ctor[1].kw[f]
    /\ heap[1].host = "E2"

----------------------------------------------------------------------------
(* Claims on stopping, exit codes and phases, checked under Spec *)

\* C11: a shutdown() that fails does not keep Looper.stop from waiting for the
\* shutdown futures of the other workers: when stop ends with the failure,
\* every shutdown future it gathered has resolved.
C11_FailedShutdownStillAwaitsOthers ==
    \A t \in 1..Len(stops) : stops[t].st = "raised" =>
        \A i \in 1..Len(stops[t].fut) : stops[t].fut[i] \in {"ok", "failed"}

\* The exit code main.py names for a failed startup.
STARTUP_FAILURE == 3

\* C12: when the configuration did not resolve or the construction of a worker
\* failed, the process exits with STARTUP_FAILURE; when run returned, every
\* worker having stopped cleanly, it exits with 0.
C12_ExitCodes ==
    pc = "closed" =>
        /\ (exc = SystemExit \/ constrExc # 0) => exitcode = STARTUP_FAILURE
        /\ (/\ exc = NoExc /\ constrExc = 0 /\ runExc = 0
            /\ \A i \in 1..Len(wrun) : wrun[i] = "done"
            /\ \A t \in 1..Len(stops) : stops[t].st = "done") => exitcode = 0

\* The phase the coroutine Looper.run is in: Idle, Loading, Starting, Running,
\* then run has ended, then the loop is closed.
PhaseRank(p) ==
    CASE p = "idle" -> 0
      [] p = "loading" -> 1
      [] p \in {"starting", "constructing"} -> 2
      [] p = "running" -> 3
      [] p \in {"returned", "raised"} -> 4
      [] p = "closed" -> 5

----------------------------------------------------------------------------
(* Liveness of the supervisor *)

\* The event loop runs every task that is ready: a stop task created by
\* handle_exit takes its first step, and run goes on once its gather is done.
\* The Worker Runtime is assumed to end the run() of a worker whose shutdown
\* was requested.
Fairness ==
    /\ \A t \in 1..MaxSignals : WF_vars(t \in 1..Len(stops) /\ stop_begin(t))
    /\ \A i \in 1..MaxWorkers : WF_vars(i \in 1..Len(wrun) /\ worker_run_stops(i))
    /\ WF_vars(run_returns)
    /\ WF_vars(run_raises)

LiveSpec == Init /\ [][Next]_vars /\ Fairness

\* C14: after a termination signal received while the workers are running,
\* every worker is eventually asked to stop (unless its run has ended before),
\* and Looper.run eventually returns (unless the run of a worker failed).
C14_SignalLeadsToReturn ==
    /\ (pc = "running" /\ \E t \in 1..Len(stops) : stops[t].st = "created")
          ~> (\A i \in 1..Len(workers) : shutdownCalls[i] >= 1 \/ wrun[i] # "running")
    /\ (pc = "running" /\ \E t \in 1..Len(stops) : stops[t].st = "created")
          ~> (pc \in {"returned", "closed"} \/ runExc # 0)

\* run returned after a signal: every worker was asked to stop and its run ended.
C14_Witness ==
    /\ pc = "returned"
    /\ nsignals = 1
    /\ Len(workers) = MaxWorkers
    /\ \A i \in 1..Len(workers) : shutdownCalls[i] = 1 /\ wrun[i] = "done"

----------------------------------------------------------------------------
(* Claims on signal handlers, references and order, checked under Spec *)

\* C15: off the main thread install_signal_handlers installs no handler and
\* raises nothing: run goes on to load, and no signal is ever handled; on the
\* main thread SIGINT and SIGTERM have a handler, each one, while the loop runs.
C15_HandlersOnlyOnMainThread ==
    /\ pc = "idle" => handlers = {}
    /\ pc \notin {"idle", "closed"} =>
          handlers = IF mainThread THEN {SIGINT, SIGTERM} ELSE {}
    /\ pc = "loading" => ENABLED run_load
    /\ ~mainThread => nsignals = 0 /\ Len(stops) = 0

\* Off the main thread, without any handler, the workers were constructed and started.
C15_Witness ==
    /\ ~mainThread
    /\ handlers = {}
    /\ pc = "running"
    /\ Len(wrun) = MaxWorkers

\* C16 (checked under SpecConfig): after a load that succeeded every reference
\* field holds resolved artifacts only: a name is replaced by the artifact the
\* loader returns for it, at the same position, and an artifact is kept.
C16_ReferencesResolved ==
    \A id \in 1..Len(heap) : heap[id].loaded =>
        /\ heap[id].factory = Artifact(heap[id]._factory)
        /\ heap[id].converter = Artifact(heap[id]._converter)
        /\ \A f \in {"activities", "workflows", "interceptors", "pre_init"} :
              \E raw \in {IF f = "activities" THEN heap[id]._activities
                          ELSE IF f = "workflows" THEN heap[id]._workflows
                          ELSE IF f = "interceptors" THEN heap[id]._interceptors
                          ELSE heap[id]._pre_init} :
                  /\ heap[id][f] = [k \in 1..Len(raw) |-> Artifact(raw[k])]
                  /\ \A k \in 1..Len(heap[id][f]) : heap[id][f][k] \notin StrValues

\* C17: once Config.load has failed inside Looper.run, no worker is constructed
\* and none is run: no new_worker call and no run() call is ever made.
C17_NoConstructionAfterFailedLoad ==
    exc # NoExc =>
        /\ Len(constr) = 0
        /\ Len(workers) = 0
        /\ Len(wrun) = 0
        /\ pc \in {"raised", "closed"}

\* The load failed on the second worker: the first one is in config.workers,
\* loaded, and was not constructed.
C17_Witness ==
    /\ pc = "closed"
    /\ exc = SystemExit
    /\ Len(config.workers) = 1
    /\ heap[config.workers[1]].loaded
    /\ Len(constr) = 0

\* C18: after a Config.load that succeeded config.workers holds one resolved
\* worker per raw entry, in the order of the entries, and once prepare_workers
\* has its result Looper.workers holds one Worker per entry of config.workers,
\* the i-th constructed from config.workers[i].
C18_OrderPreserved ==
    /\ config.loaded =>
          /\ Len(config.workers) = Len(config._workers)
          /\ \A j \in 1..Len(config.workers) :
                /\ ctor[config.workers[j]].origin = j
                /\ heap[config.workers[j]].loaded
                /\ heap[config.workers[j]].name = RawName(j)
    /\ Len(workers) > 0 =>
          /\ Len(workers) = Len(config.workers)
          /\ \A i \in 1..Len(workers) : workers[i] = config.workers[i]

\* Two workers, w1 then w2, were loaded, constructed and started in that order.
C18_Witness ==
    /\ pc = "running"
    /\ Len(workers) = 2
    /\ heap[workers[1]].name = "w1"
    /\ heap[workers[2]].name = "w2"
    /\ RawName(1) = "w1"

\* C19: Looper.workers is empty until the constructions have all succeeded, is
\* then set once, to one worker per entry of config.workers, and is changed by
\* no later step: not by running, by a signal, by stopping or by closing.
C19_WorkersSetOnce ==
    [][ workers' # workers =>
            /\ pc = "constructing"
            /\ pc' = "running"
            /\ workers = <<>>
            /\ Len(workers') = Len(config.workers)
            /\ \A i \in 1..Len(constr) : constr[i] = "ok"
      ]_vars

\* After two signals and a completed stop the loop is closed and Looper.workers
\* still holds every constructed worker.
C19_Witness ==
    /\ pc = "closed"
    /\ nsignals = 2
    /\ Len(workers) = MaxWorkers
    /\ \E t \in 1..Len(stops) : stops[t].st = "done" /\ Len(stops[t].fut) = Len(workers)

----------------------------------------------------------------------------
(* Frame of the resolution, checked under SpecConfig *)

\* C20: no load call changes a default field of the global Config, a worker
\* that is loaded is changed by no later call, and WorkerConfig.load on one
\* worker changes no other worker.
C20_GlobalReadOnly ==
    [][ /\ \A f \in MergeFields : config'[f] = config[f]
        /\ config'._workers = config._workers
        /\ \A id \in 1..Len(heap) : heap[id].loaded => heap'[id] = heap[id]
        /\ \A id \in 1..Len(heap) :
              (\E g \in BOOLEAN : WorkerConfig_load_call(id, g)) =>
                  /\ Len(heap') = Len(heap)
                  /\ \A j \in 1..Len(heap) : j # id => heap'[j] = heap[j]
      ]_vars

\* Two workers were merged with a global Config of names and loaded: they hold
\* the artifacts, the Config still holds the names.
C20_Witness ==
    /\ config.loaded
    /\ Len(config.workers) = 2
    /\ config.factory = "pkg:n1"
    /\ config.interceptors = <<"pkg:n1">>
    /\ \A j \in 1..2 : heap[config.workers[j]].factory = "<n1>"
                       /\ heap[config.workers[j]].host = config.host

----------------------------------------------------------------------------
(* Implicit claims: signals during startup, and the loaded flags *)

\* C21 (checked under Spec): a termination signal is never lost: once the stop
\* task of a handled signal has completed, no worker is started without having
\* received a shutdown() call.
C21_SignalNeverLost ==
    (Len(wrun) > 0 /\ \E t \in 1..Len(stops) : stops[t].st = "done") =>
        \A i \in 1..Len(wrun) : shutdownCalls[i] >= 1

\* C22 (checked under SpecConfig): the loaded flags agree with the resolved
\* state: a loaded Config holds one loaded worker per raw entry; a loaded
\* WorkerConfig holds no unresolved name in any of its reference fields; and
\* once run is past its load, no load was rejected as a second resolution.
C22_LoadedFlagsConsistent ==
    /\ config.loaded =>
          /\ Len(config.workers) = Len(config._workers)
          /\ \A j \in 1..Len(config.workers) : heap[config.workers[j]].loaded
    /\ \A id \in 1..Len(heap) : heap[id].loaded =>
          /\ heap[id].factory \notin StrValues
          /\ heap[id].converter \notin StrValues
          /\ \A k \in 1..Len(heap[id].activities) : heap[id].activities[k] \notin StrValues
          /\ \A k \in 1..Len(heap[id].workflows) : heap[id].workflows[k] \notin StrValues
          /\ \A k \in 1..Len(heap[id].interceptors) : heap[id].interceptors[k] \notin StrValues
          /\ \A k \in 1..Len(heap[id].pre_init) : heap[id].pre_init[k] \notin StrValues
    /\ pc \notin {"idle", "loading"} => exc # AssertionError

====
